---- MODULE Spec2Model ----
(***************************************************************************)
(* Acelera-Map: the App animation sequencer (both variants of App.tsx),    *)
(* the useCampaigns data hook, the TVErrorBoundary that wraps the App, the *)
(* MapChart camera (transform variant) and the AnimatedCounter.            *)
(*                                                                         *)
(* Time is counted in tenths of a second (1500 ms = 15).  Zoom factors are *)
(* scaled by 10 and coordinates by 100 so that they are integers.          *)
(* Timers are kept with the time that remains until they are due; a timer  *)
(* whose remaining time is <= 0 is due, and the host runs due timers in    *)
(* the order of their due times (creation order among equals).             *)
(***************************************************************************)
EXTENDS Integers, Sequences, FiniteSets, TLC

VARIABLES
    variant,        \* "flagged": App with hasInitialized; "legacy": older App
    mounted,        \* the App component is mounted
    hasError,       \* TVErrorBoundary.state.hasError
    countdown,      \* TVErrorBoundary.state.countdown
    db,             \* rows of the campaigns table, newest first
    inflight,       \* responses of fetchCampaigns calls not yet delivered
    all,            \* useCampaigns: campaigns state (allCampaigns in App)
    loading,        \* useCampaigns: loading state
    error,          \* useCampaigns: error state is set
    activeIdx,      \* App state
    isLightingUp,   \* App state
    uiVisible,      \* App state
    adminOpen,      \* App state
    position,       \* App state: the committed camera target
    hasInitialized, \* App state (flagged variant)
    timers,         \* pending host timers, in creation order
    mcMounted,      \* a MapChart is mounted
    cam,            \* MapChart: the motion values x, y, k (the displayed transform)
    anims,          \* MapChart: the running animations of the motion values
    prevZoom,       \* MapChart state
    cntValue,       \* AnimatedCounter: the value prop
    cntDisplay,     \* AnimatedCounter: displayValue state
    cntLoops,       \* AnimatedCounter: the running frame loops, oldest first
    card,           \* the campaign card: on the screen (on), and the time since
                    \* its time bar started (el; below 0 while the card it
                    \* replaces still leaves)
    mapActive,      \* BrazilMapContent: the activeState it rendered last
    mon,            \* usePerformanceMonitor: its effect, refs and pending callbacks
    ar,             \* useAutoReload: its options, its timer, what its callback did
    eb,             \* TVErrorBoundary: its props, and whether it called reload
    \* ---- history variables (observers, never read by the program) ----
    last,           \* the callback or event that ran last
    cyc,            \* the cycle started by the latest tick: the index and list it
                    \* saw, and the phase callbacks that ran with the offset from
                    \* the tick they were due at (off) and ran at (at)
    sinceTick,      \* time elapsed since the latest cycle start
    envSince,       \* an outside event re-rendered the App since that start
    lastGap,        \* scheduled distance of the latest two cycle starts (0: none)
    cyclesDone,     \* cycles whose reveal has run since the page load
    listFixed,      \* the display list has not changed since the first tick
    initCount,      \* initial positioning commands run since the page load
    firstCmd,       \* the first camera command since the page load
    strayRuns,      \* sequencer callbacks that ran after the App was unmounted
    crashes,        \* render errors caught by the boundary (saturating)
    dbChanges,      \* table changes so far (bounded)
    camAt,          \* the displayed transform when the latest target arrived
    supplied,       \* targets supplied to a MapChart on its own (bounded)
    cntPrev,        \* the value prop before its latest change
    cntFrom,        \* the displayed value when the value prop changed last
    cntStale,       \* a frame loop other than the newest wrote displayValue
    cntChanges      \* changes of the value prop so far (bounded)

appVars   == <<activeIdx, isLightingUp, uiVisible, adminOpen, position, hasInitialized>>
netVars   == <<db, inflight, all, loading, error>>
histVars  == <<last, cyc, sinceTick, envSince, lastGap, cyclesDone, listFixed,
               initCount, firstCmd, strayRuns, crashes, dbChanges>>
mcVars    == <<mcMounted, cam, anims, prevZoom, camAt, supplied>>
cntVars   == <<cntValue, cntDisplay, cntLoops, cntPrev, cntFrom, cntStale, cntChanges>>
viewVars  == <<card, mapActive>>
hookVars  == <<mon, ar, eb>>
vars      == <<variant, mounted, hasError, countdown, netVars, appVars, timers, histVars,
               mcVars, cntVars, viewVars, hookVars>>

----------------------------------------------------------------------------
(* Bounds of the model *)
MaxLate      == 1     \* how late (tenths of a second) the host may run a due timer
MaxInflight  == 2     \* fetches in flight at once
MaxDbChanges == 1     \* table changes per behaviour
MaxCycles    == 6     \* completed cycles counted
MaxCrashes   == 2     \* render errors counted
MaxSince     == 230   \* cap of the sinceTick observer
MaxSupplies  == 3     \* targets supplied to a MapChart on its own
MaxChanges   == 2     \* changes of the value prop of an AnimatedCounter on its own
FrameStep    == 5     \* the shorter distance of two sampled frames of a MapChart
CounterStep  == 4     \* the shorter distance of two sampled frames of a counter

(* Program constants: the delays given to setTimeout and setInterval, in tenths
   of a second, and the reload delay index.tsx gives the error boundary *)
T_REVEAL == 80
T_ZOOMIN == 40

\* a slip: the data exchange scheduled after the zoom-in instead of before it
T_SWAP_AfterZoomIn == T_ZOOMIN + 5

T_SWAP   == 25

\* a slip: the glow turned off after the data exchange instead of before it
T_DARK_AfterSwap == T_SWAP + 5

T_DARK   == 15
T_INIT   == 8
T_CYCLE  == 140
T_COUNTDOWN_TICK == 10
RELOAD_DELAY_MS  == 3000

\* a slip: the countdown rounded up and started one second too high
CountdownFromCeil(ms) == (ms \div 1000) + 1

\* componentDidCatch: countdown: Math.floor(reloadDelayMs / 1000)
CountdownFrom(ms) == ms \div 1000

----------------------------------------------------------------------------
(* Data *)
BRAZIL_CENTER == <<-5500, -1500>>
Neutral == [coordinates |-> BRAZIL_CENTER, zoom |-> 10]

Camp(i, st, co, z, act) ==
    [id |-> i, stateId |-> st, coordinates |-> co, zoom |-> z, is_active |-> act]

\* constants.ts: the five built-in campaigns (is_active is absent: "undef")
CAMPAIGNS == <<
    Camp("c1", "Sao Paulo",    <<-4850, -2250>>, 35, "undef"),
    Camp("c2", "Tocantins",    <<-4825, -1017>>, 32, "undef"),
    Camp("c3", "Minas Gerais", <<-4455, -1851>>, 28, "undef"),
    Camp("c4", "Mato Grosso",  <<-5588, -1264>>, 25, "undef"),
    Camp("c5", "Bahia",        <<-4174, -1297>>, 25, "undef") >>

\* rows of the campaigns table, in the column names of the table
Row(i, st, lo, la, z, act) ==
    [id |-> i, state_id |-> st, coord_long |-> lo, coord_lat |-> la,
     zoom_level |-> z, is_active |-> act]

R1    == Row("r1", "Ceara",  -3950, -520,  45, "true")
R2    == Row("r2", "Goias",  -4983, -1582, 32, "true")
R3    == Row("r3", "PR",     -5172, -2489, 35, "null")
R1off == Row("r1", "Ceara",  -3950, -520,  45, "false")

\* the contents of the table that are tried: no row; three rows shown, the first
\* with an abbreviation for its state_id; one row shown and one hidden; one row,
\* hidden
Tables == { <<>>, <<R3, R1, R2>>, <<R1off, R2>>, <<R1off>> }

\* useCampaigns: data.map(item => ({...}))
MapRow(item) ==
    Camp(item.id, item.state_id, <<item.coord_long, item.coord_lat>>,
         item.zoom_level, item.is_active)

MapRows(data) == [i \in 1..Len(data) |-> MapRow(data[i])]

IsActive(c) == c.is_active # "false"

\* App: allCampaigns.filter(c => c.is_active !== false), or CAMPAIGNS
FilterActive(cs) == SelectSeq(cs, IsActive)

\* a slip: no fallback to the built-in list
DisplayOfNoFallback(v, a) ==
    IF v = "legacy" THEN CAMPAIGNS ELSE FilterActive(a)

DisplayOf(v, a) ==
    IF v = "legacy" THEN CAMPAIGNS
    ELSE IF Len(a) > 0 THEN FilterActive(a) ELSE CAMPAIGNS

Display == DisplayOf(variant, all)

PosOf(c) == [coordinates |-> c.coordinates, zoom |-> c.zoom]

\* App: campaigns[activeIdx] || campaigns[0]   (indices are 0-based in the code)
CurrentOf(v, cs, ix) ==
    IF v = "legacy" THEN (IF ix < Len(cs) THEN <<cs[ix + 1]>> ELSE <<>>)
    ELSE IF ix < Len(cs) THEN <<cs[ix + 1]>>
    ELSE IF Len(cs) > 0 THEN <<cs[1]>> ELSE <<>>

CurrentCampaign == CurrentOf(variant, Display, activeIdx)

\* MapChart prop: activeState={isLightingUp ? currentCampaign.stateId : ""}
ActiveState ==
    IF isLightingUp /\ CurrentCampaign # <<>> THEN CurrentCampaign[1].stateId ELSE ""

\* a slip: the index stops at the last campaign instead of wrapping to the first
NextIdxNoWrap(ix, len) == IF ix + 1 < len THEN ix + 1 ELSE ix

\* runAnimationSequence: (activeIdx + 1) % campaigns.length
NextIdx(ix, len) == (ix + 1) % len

----------------------------------------------------------------------------
(* Host timers *)
Timer(k, r, ix, cs) == [kind |-> k, rem |-> r, idx |-> ix, camps |-> cs]

PhaseKinds == {"dark", "swap", "zoomin", "reveal"}

Remove(s, i) == SubSeq(s, 1, i - 1) \o SubSeq(s, i + 1, Len(s))

\* a slip: a cleanup that clears nothing
ClearNothing(ts, kinds) == ts

\* clearTimeout / clearInterval of every timer of the given kinds
Clear(ts, kinds) == SelectSeq(ts, LAMBDA t : t.kind \notin kinds)

Min(a, b) == IF a < b THEN a ELSE b

MinRem(ts) == CHOOSE m \in {ts[i].rem : i \in 1..Len(ts)} :
                  \A j \in 1..Len(ts) : m <= ts[j].rem

\* the host runs the due timer with the earliest due time, the older one first
Due(i) ==
    /\ timers[i].rem <= 0
    /\ \A j \in 1..Len(timers) :
          \/ timers[j].rem > timers[i].rem
          \/ (timers[j].rem = timers[i].rem /\ j >= i)

----------------------------------------------------------------------------
(* MapChart (transform variant): the camera *)
MAP_WIDTH  == 800
MAP_HEIGHT == 600
PROJECTION_SCALE == 1000
DUR_ZOOM_IN  == 40
DUR_ZOOM_OUT == 15

\* degrees (in hundredths) to radians (in thousandths)
MilliRad(deg) == (deg * 17453) \div 100000

\* the coordinates geoMercator has a point for
InDomain(c) == c[1] >= -18000 /\ c[1] <= 18000 /\ c[2] > -9000 /\ c[2] < 9000

\* ln(tan(pi/4 + phi/2)) in thousandths, by its series up to the fifth order
MercatorY(phi) ==
    LET sq == (phi * phi) \div 1000
    IN  phi + (sq * phi) \div 6000 + (((sq * sq) \div 1000) * phi) \div 24000

\* projection(coordinates): geoMercator().scale(1000).translate([400, 300]); the
\* pixel of a point, <<>> (null) for a point that cannot be projected
Project(c) ==
    IF ~InDomain(c) THEN <<>>
    ELSE << MAP_WIDTH \div 2 + (PROJECTION_SCALE * MilliRad(c[1])) \div 1000,
            MAP_HEIGHT \div 2 - (PROJECTION_SCALE * MercatorY(MilliRad(c[2]))) \div 1000 >>

\* useMotionValue(0), useMotionValue(0), useMotionValue(1)
Origin == [x |-> 0, y |-> 0, k |-> 10]

\* the effect, steps 1 and 2: the transform that centres the target
\* a slip: the translation leaves out the zoom
TargetOfUnscaled(p) ==
    LET pt == Project(p.coordinates)
        px == IF pt = <<>> THEN MAP_WIDTH \div 2 ELSE pt[1]
        py == IF pt = <<>> THEN MAP_HEIGHT \div 2 ELSE pt[2]
    IN  [x |-> MAP_WIDTH \div 2 - px, y |-> MAP_HEIGHT \div 2 - py, k |-> p.zoom]

TargetOf(p) ==
    LET pt == Project(p.coordinates)
        px == IF pt = <<>> THEN MAP_WIDTH \div 2 ELSE pt[1]
        py == IF pt = <<>> THEN MAP_HEIGHT \div 2 ELSE pt[2]
    IN  [x |-> MAP_WIDTH \div 2 - (px * p.zoom) \div 10,
         y |-> MAP_HEIGHT \div 2 - (py * p.zoom) \div 10,
         k |-> p.zoom]

\* the effect, step 3
IsZoomingIn(targetScale, pz) == targetScale > pz

\* a slip: the two durations exchanged
DurationOfSwapped(zi) == IF zi THEN DUR_ZOOM_OUT ELSE DUR_ZOOM_IN

DurationOf(zi) == IF zi THEN DUR_ZOOM_IN ELSE DUR_ZOOM_OUT

EaseOf(zi) == IF zi THEN "EASE_ZOOM_IN" ELSE "EASE_ZOOM_OUT"

\* The eased progress, in thousandths, of an animation el after its start.  The
\* two cubic-bezier curves are taken by polynomials of the same kind with the
\* same end points: EASE_ZOOM_IN (fast start, long tail) by 1 - (1 - p)^4,
\* EASE_ZOOM_OUT (symmetric) by 2p^2 and 1 - 2(1 - p)^2.
Ease(ease, el, dur) ==
    LET p  == (el * 1000) \div dur
        q  == 1000 - p
        q2 == (q * q) \div 1000
    IN  IF el >= dur THEN 1000
        ELSE IF ease = "EASE_ZOOM_IN" THEN 1000 - (q2 * q2) \div 1000
        ELSE IF 2 * el < dur THEN (2 * p * p) \div 1000
        ELSE 1000 - 2 * q2

Mix(from, to, e) == from + ((to - from) * e) \div 1000

\* the value an animation gives the motion values
ValueOf(a) ==
    LET e == Ease(a.ease, a.el, a.dur)
    IN  [x |-> Mix(a.from.x, a.to.x, e),
         y |-> Mix(a.from.y, a.to.y, e),
         k |-> Mix(a.from.k, a.to.k, e)]

\* animate(x, targetX, ...), animate(y, ...), animate(k, ...): one animation of
\* the three motion values, from their current values
NewAnim(c, pz, p) ==
    [from |-> c, to |-> TargetOf(p), el |-> 0,
     dur  |-> DurationOf(IsZoomingIn(p.zoom, pz)),
     ease |-> EaseOf(IsZoomingIn(p.zoom, pz))]

\* a slip: an effect without the cleanup that stops the running animations
MapEffectNoStop(an, c, pz, p) == Append(an, NewAnim(c, pz, p))

\* the effect of MapChart for a new position object: the cleanup of the
\* previous run stops its animations, then the new animation starts
MapEffect(an, c, pz, p) == << NewAnim(c, pz, p) >>

AdvAnim(a, d) == [a EXCEPT !.el = IF a.el + d < a.dur THEN a.el + d ELSE a.dur]

\* frames during d: every running animation writes the motion values (the
\* newest last) and ends when its duration has passed
AnimateBy(d) ==
    /\ cam' = (IF anims = <<>> THEN cam ELSE ValueOf(AdvAnim(anims[Len(anims)], d)))
    /\ anims' = SelectSeq([i \in 1..Len(anims) |-> AdvAnim(anims[i], d)],
                          LAMBDA a : a.el < a.dur)
    /\ UNCHANGED <<mcMounted, prevZoom, camAt, supplied>>

\* MapChart mounts with the position p: useState(position.zoom), then the effect
McMount(p) ==
    /\ mcMounted' = TRUE
    /\ cam' = Origin
    /\ camAt' = Origin
    /\ prevZoom' = p.zoom
    /\ anims' = MapEffect(<<>>, Origin, p.zoom, p)
    /\ supplied' = supplied

\* MapChart unmounts: the cleanup stops the animations
McGone ==
    /\ mcMounted' = FALSE
    /\ cam' = Origin
    /\ camAt' = Origin
    /\ prevZoom' = 0
    /\ anims' = <<>>
    /\ supplied' = supplied

\* MapChart renders with a new position object p: the effect runs again
McRetarget(p) ==
    /\ mcMounted' = TRUE
    /\ cam' = cam
    /\ camAt' = cam
    /\ anims' = MapEffect(anims, cam, prevZoom, p)
    /\ prevZoom' = p.zoom

\* MapChart after a step of the App: gone with it, retargeted when the App
\* stored a new position object, untouched otherwise
MapChartStep(posSet) ==
    IF ~mounted' THEN McGone
    ELSE IF posSet THEN McRetarget(position') /\ supplied' = supplied
    ELSE UNCHANGED mcVars

----------------------------------------------------------------------------
(* The campaign card and the regions of the map *)
BAR_DURATION == 140     \* CampaignCard: duration = 14000
CARD_EXIT    == 12      \* the card's transition: duration 1.2

NoCard  == [on |-> FALSE, el |-> 0]
NewCard == [on |-> TRUE, el |-> 0]

\* the time bar: width 0% to 100%, linear over duration / 1000 seconds
BarPercent(el) ==
    IF el <= 0 THEN 0
    ELSE IF el >= BAR_DURATION THEN 100
    ELSE (100 * el) \div BAR_DURATION

\* <AnimatePresence mode="wait"> {uiVisible && <motion.div key={currentCampaign.id}>}:
\* no card while uiVisible is false; a card mounts when uiVisible turns true;
\* under another key the card leaves first and its successor mounts after that
CardAfter(c, ui, oldKey, newKey) ==
    IF ~ui THEN NoCard
    ELSE IF ~c.on THEN NewCard
    ELSE IF oldKey # newKey THEN [on |-> TRUE, el |-> 0 - CARD_EXIT]
    ELSE c

\* the names of the regions the map draws (geo.properties.name)
Regions ==
    { "Acre", "Alagoas", "Amapa", "Amazonas", "Bahia", "Ceara", "Distrito Federal",
      "Espirito Santo", "Goias", "Maranhao", "Mato Grosso", "Mato Grosso do Sul",
      "Minas Gerais", "Para", "Paraiba", "Parana", "Pernambuco", "Piaui",
      "Rio de Janeiro", "Rio Grande do Norte", "Rio Grande do Sul", "Rondonia",
      "Roraima", "Santa Catarina", "Sao Paulo", "Sergipe", "Tocantins" }

\* a slip: the comparator of the memo lets no render through
MemoRenderNever(prev, next) == prev

\* React.memo(..., (prev, next) => prev.activeState === next.activeState):
\* BrazilMapContent renders again only with another activeState
MemoRender(prev, next) == IF prev = next THEN prev ELSE next

\* geographies.map(geo => ... isHighlighted = geo.properties.name === activeState)
Highlighted == { r \in Regions : r = mapActive }

\* the card and the map content after a step of the App
ViewStep ==
    IF ~mounted' THEN card' = NoCard /\ mapActive' = ""
    ELSE /\ card' = CardAfter(card, uiVisible', CurrentCampaign[1].id,
                              CurrentCampaign'[1].id)
         /\ mapActive' = MemoRender(mapActive, ActiveState')

\* the page after a load: the card of the first campaign, the map lit
ViewMount ==
    /\ card' = NewCard
    /\ mapActive' = CAMPAIGNS[1].stateId

\* the time bar runs
ViewElapse(d) ==
    /\ card' = (IF card.on THEN [card EXCEPT !.el = Min(@ + d, MaxSince)] ELSE card)
    /\ mapActive' = mapActive

----------------------------------------------------------------------------
(* AnimatedCounter *)
COUNT_DURATION == 20

Pow4(n) == n * n * n * n

\* a slip: the second half of the curve without its "1 -"
CounterValueSlip(start, end, el) ==
    LET e == IF el < COUNT_DURATION THEN el ELSE COUNT_DURATION
    IN  IF 2 * e < COUNT_DURATION
        THEN start + ((end - start) * 8 * Pow4(e)) \div Pow4(COUNT_DURATION)
        ELSE start + ((end - start) * 8 * Pow4(COUNT_DURATION - e))
                         \div Pow4(COUNT_DURATION)

\* animate(currentTime): Math.floor(start + (end - start) * easeProgress), with
\* progress = min(elapsed / duration, 1) and easeInOutQuart:
\* 8 p^4 below one half, 1 - (-2p + 2)^4 / 2 from there
CounterValue(start, end, el) ==
    LET e == IF el < COUNT_DURATION THEN el ELSE COUNT_DURATION
    IN  IF 2 * e < COUNT_DURATION
        THEN start + ((end - start) * 8 * Pow4(e)) \div Pow4(COUNT_DURATION)
        ELSE start + ((end - start) * (Pow4(COUNT_DURATION) - 8 * Pow4(COUNT_DURATION - e)))
                         \div Pow4(COUNT_DURATION)

\* the effect for a value: a frame loop from the displayed value to the value
NewLoop(shown, v) == [start |-> shown, end |-> v, el |-> 0]

\* no AnimatedCounter is mounted
NoCounter ==
    /\ cntValue = 0
    /\ cntDisplay = 0
    /\ cntLoops = <<>>
    /\ cntPrev = 0
    /\ cntFrom = 0
    /\ cntStale = 0
    /\ cntChanges = 0

----------------------------------------------------------------------------
(* App: the cycle effect and a render *)

\* a slip: the effect of the legacy App kept, which ignores hasInitialized
FlaggedEffectNoFlag(ts, cs, ix, hi) ==
    IF Len(cs) = 0 THEN ts
    ELSE ts \o << Timer("start", T_INIT, ix, cs), Timer("interval", T_CYCLE, ix, cs) >>

\* flagged App, useEffect body (ARCHITECTURE.md): cs is the campaigns of the render
FlaggedEffect(ts, cs, ix, hi) ==
    IF Len(cs) = 0 THEN ts
    ELSE IF ~hi THEN Append(ts, Timer("start", T_INIT, ix, cs))
    ELSE Append(ts, Timer("interval", T_CYCLE, ix, cs))

\* legacy App, useEffect body: both timers are armed on every run
LegacyEffect(ts, ix) ==
    ts \o << Timer("start", T_INIT, ix, CAMPAIGNS),
             Timer("interval", T_CYCLE, ix, CAMPAIGNS) >>

\* the effect's cleanup, then its body
CycleEffect(v, ts, cs, ix, hi) ==
    IF v = "legacy" THEN LegacyEffect(Clear(ts, {"start", "interval"}), ix)
    ELSE FlaggedEffect(Clear(ts, {"start", "interval"}), cs, ix, hi)

\* did a dependency of the cycle effect change between the committed render and
\* the new one?  The filtered array is a new object on every render.
DepsChanged(v, a, ix, hi) ==
    IF v = "legacy" THEN ix # activeIdx
    ELSE \/ ix # activeIdx
         \/ hi # hasInitialized
         \/ Len(DisplayOf(v, a)) # Len(Display)
         \/ Len(a) > 0
         \/ a # all

\* the render reads currentCampaign.stateId unless it shows the loading spinner
RenderThrows(v, cs, ix, ld) ==
    IF v = "legacy" THEN CurrentOf(v, cs, ix) = <<>>
    ELSE CurrentOf(v, cs, ix) = <<>> /\ ~ld

\* the state of the App and of its hooks is discarded when it is unmounted
Gone ==
    /\ all' = <<>>
    /\ loading' = FALSE
    /\ error' = FALSE
    /\ activeIdx' = 0
    /\ isLightingUp' = FALSE
    /\ uiVisible' = FALSE
    /\ adminOpen' = FALSE
    /\ position' = Neutral
    /\ hasInitialized' = FALSE

\* A batch of state updates of the mounted App followed by its render: the new
\* state, then either the error boundary takes over or the cycle effect re-runs.
\* forced: an update that always re-renders (a new object was stored).
Commit(a, ld, er, ix, li, ui, ad, po, hi, forced, ts) ==
    LET rendered == forced \/ <<ld, er, ix, li, ui, ad, hi>> #
                       <<loading, error, activeIdx, isLightingUp, uiVisible,
                         adminOpen, hasInitialized>>
        crash == rendered /\ RenderThrows(variant, DisplayOf(variant, a), ix, ld)
        rerun == rendered /\ DepsChanged(variant, a, ix, hi)
    IN  /\ variant' = variant
        /\ IF crash
           THEN /\ Gone
                /\ mounted' = FALSE
                /\ hasError' = TRUE
                /\ countdown' = CountdownFrom(RELOAD_DELAY_MS)
                /\ timers' = Append(Clear(ts, {"start", "interval"}),
                                    Timer("countdown", T_COUNTDOWN_TICK, 0, <<>>))
                /\ crashes' = Min(crashes + 1, MaxCrashes)
           ELSE /\ all' = a
                /\ loading' = ld
                /\ error' = er
                /\ activeIdx' = ix
                /\ isLightingUp' = li
                /\ uiVisible' = ui
                /\ adminOpen' = ad
                /\ position' = po
                /\ hasInitialized' = hi
                /\ mounted' = mounted
                /\ hasError' = hasError
                /\ countdown' = countdown
                /\ timers' = IF rerun
                             THEN CycleEffect(variant, ts, DisplayOf(variant, a), ix, hi)
                             ELSE ts
                /\ crashes' = crashes

----------------------------------------------------------------------------
(* The hooks and the error boundary, when they are not in use *)
MonOff ==
    [on |-> FALSE, lowFPSCount |-> 0, raf |-> {}, fpsCheckRef |-> 0,
     memTimer |-> FALSE, lastMem |-> 0, lowRun |-> 0, reloadAt |-> 0, stray |-> 0]

ArOff ==
    [enabled |-> FALSE, secs |-> 0, hasCb |-> FALSE, cbThrows |-> FALSE,
     timer |-> FALSE, log |-> <<>>, firedCb |-> FALSE]

EbOff == [delay |-> 3000, auto |-> TRUE, reloading |-> FALSE]

NoHooks == mon = MonOff /\ ar = ArOff /\ eb = EbOff

----------------------------------------------------------------------------
(* Page load *)
NoCycle == [idx |-> 0, camps |-> <<>>, log |-> <<>>]

Init ==
    /\ variant \in {"flagged", "legacy"}
    /\ mounted = TRUE
    /\ hasError = FALSE
    /\ countdown = 0
    /\ db \in (IF variant = "legacy" THEN {<<>>} ELSE Tables)
    /\ inflight = (IF variant = "legacy" THEN <<>> ELSE <<db>>)
    /\ all = <<>>
    /\ loading = (variant = "flagged")
    /\ error = FALSE
    /\ activeIdx = 0
    /\ isLightingUp = TRUE
    /\ uiVisible = TRUE
    /\ adminOpen = FALSE
    /\ position = Neutral
    /\ hasInitialized = FALSE
    /\ timers = CycleEffect(variant, <<>>, CAMPAIGNS, 0, FALSE)
    /\ last = "load"
    /\ cyc = NoCycle
    /\ sinceTick = 0
    /\ envSince = TRUE
    /\ lastGap = 0
    /\ cyclesDone = 0
    /\ listFixed = TRUE
    /\ initCount = 0
    /\ firstCmd = "none"
    /\ strayRuns = 0
    /\ crashes = 0
    /\ dbChanges = 0
    /\ mcMounted = TRUE
    /\ cam = Origin
    /\ camAt = Origin
    /\ prevZoom = Neutral.zoom
    /\ anims = MapEffect(<<>>, Origin, Neutral.zoom, Neutral)
    /\ supplied = 0
    /\ NoCounter
    /\ card = NewCard
    /\ mapActive = CAMPAIGNS[1].stateId
    /\ NoHooks

\* window.location.reload(): a new page, with nothing of the old one left
Reload ==
    /\ variant' = variant
    /\ mounted' = TRUE
    /\ hasError' = FALSE
    /\ countdown' = 0
    /\ db' = db
    /\ inflight' = <<db>>
    /\ all' = <<>>
    /\ loading' = TRUE
    /\ error' = FALSE
    /\ activeIdx' = 0
    /\ isLightingUp' = TRUE
    /\ uiVisible' = TRUE
    /\ adminOpen' = FALSE
    /\ position' = Neutral
    /\ hasInitialized' = FALSE
    /\ timers' = CycleEffect(variant, <<>>, CAMPAIGNS, 0, FALSE)
    /\ last' = "load"
    /\ cyc' = NoCycle
    /\ sinceTick' = 0
    /\ envSince' = TRUE
    /\ lastGap' = 0
    /\ cyclesDone' = 0
    /\ listFixed' = TRUE
    /\ initCount' = 0
    /\ firstCmd' = "none"
    /\ strayRuns' = 0
    /\ crashes' = crashes
    /\ dbChanges' = dbChanges
    /\ McMount(Neutral)
    /\ ViewMount
    /\ UNCHANGED cntVars
    /\ UNCHANGED hookVars

----------------------------------------------------------------------------
(* Time *)

\* Time passes by d: all timers and the observer age.
Elapse(d) ==
    /\ timers' = [i \in 1..Len(timers) |-> [timers[i] EXCEPT !.rem = @ - d]]
    /\ sinceTick' = Min(sinceTick + d, MaxSince)
    /\ UNCHANGED <<variant, mounted, hasError, countdown, netVars, appVars>>
    /\ UNCHANGED <<last, cyc, envSince, lastGap, cyclesDone, listFixed,
                   initCount, firstCmd, strayRuns, crashes, dbChanges>>
    /\ AnimateBy(d)
    /\ ViewElapse(d)
    /\ UNCHANGED cntVars
    /\ UNCHANGED hookVars

\* A host that runs every timer when it is due: time passes up to the next due
\* time.  Outside events happen at these instants, before or after any callback
\* that is due.
Advance ==
    /\ timers # <<>>
    /\ MinRem(timers) > 0
    /\ Elapse(MinRem(timers))

\* A host under load: it may run a due timer up to MaxLate late.
AdvanceLate(l) ==
    /\ timers # <<>>
    /\ MinRem(timers) > 0
    /\ Elapse(MinRem(timers) + l)

----------------------------------------------------------------------------
(* App: timer callbacks *)

\* a slip: the initial positioning takes the first campaign off the list
FireStartShifts(i) ==
    /\ timers[i].kind = "start"
    /\ Due(i)
    /\ Commit(IF all = <<>> THEN all ELSE Tail(all), loading, error, activeIdx, isLightingUp, uiVisible, adminOpen,
              PosOf(timers[i].camps[1]),
              IF variant = "flagged" THEN TRUE ELSE hasInitialized,
              TRUE, Remove(timers, i))
    /\ last' = "init"
    /\ initCount' = Min(initCount + 1, 2)
    /\ firstCmd' = (IF firstCmd = "none" THEN "init" ELSE firstCmd)
    /\ UNCHANGED <<db, inflight, cyc, sinceTick, envSince, lastGap, cyclesDone,
                   listFixed, strayRuns, dbChanges>>
    /\ MapChartStep(TRUE)
    /\ ViewStep
    /\ UNCHANGED cntVars
    /\ UNCHANGED hookVars

\* startTimer callback: the initial positioning
FireStart(i) ==
    /\ timers[i].kind = "start"
    /\ Due(i)
    /\ Commit(all, loading, error, activeIdx, isLightingUp, uiVisible, adminOpen,
              PosOf(timers[i].camps[1]),
              IF variant = "flagged" THEN TRUE ELSE hasInitialized,
              TRUE, Remove(timers, i))
    /\ last' = "init"
    /\ initCount' = Min(initCount + 1, 2)
    /\ firstCmd' = (IF firstCmd = "none" THEN "init" ELSE firstCmd)
    /\ UNCHANGED <<db, inflight, cyc, sinceTick, envSince, lastGap, cyclesDone,
                   listFixed, strayRuns, dbChanges>>
    /\ MapChartStep(TRUE)
    /\ ViewStep
    /\ UNCHANGED cntVars
    /\ UNCHANGED hookVars

\* runAnimationSequence: the four phase timeouts it schedules; they keep the
\* nextIdx and the campaigns of the closure that scheduled them
PhaseTimers(nx, cs) ==
    << Timer("dark",   T_DARK,   nx, cs),
       Timer("swap",   T_SWAP,   nx, cs),
       Timer("zoomin", T_ZOOMIN, nx, cs),
       Timer("reveal", T_REVEAL, nx, cs) >>

\* a slip: only the empty list is guarded
SequenceGuardEmptyOnly(v, cs) == v = "flagged" /\ Len(cs) < 1

\* runAnimationSequence returns at once (flagged variant only)
SequenceGuard(v, cs) == v = "flagged" /\ Len(cs) <= 1

\* interval callback: runAnimationSequence() of the closure the interval holds
FireInterval(i) ==
    LET t     == timers[i]
        again == [timers EXCEPT ![i].rem = T_CYCLE]
    IN  /\ t.kind = "interval"
        /\ Due(i)
        /\ IF SequenceGuard(variant, t.camps)
           THEN /\ timers' = again
                /\ last' = "idle"
                /\ UNCHANGED <<variant, mounted, hasError, countdown, netVars, appVars>>
                /\ UNCHANGED <<cyc, sinceTick, envSince, lastGap, cyclesDone, listFixed,
                               initCount, firstCmd, strayRuns, crashes, dbChanges>>
                /\ UNCHANGED <<mcVars, cntVars, viewVars, hookVars>>
           ELSE /\ Commit(all, loading, error, activeIdx, isLightingUp, FALSE, adminOpen,
                          Neutral, hasInitialized, TRUE,
                          again \o PhaseTimers(NextIdx(t.idx, Len(t.camps)), t.camps))
                /\ last' = "tick"
                /\ cyc' = [idx |-> activeIdx, camps |-> Display, log |-> <<>>]
                /\ lastGap' = (IF envSince THEN 0 ELSE sinceTick + t.rem)
                /\ sinceTick' = 0
                /\ envSince' = FALSE
                /\ firstCmd' = (IF firstCmd = "none" THEN "neutral" ELSE firstCmd)
                /\ UNCHANGED <<db, inflight, cyclesDone, listFixed, initCount,
                               strayRuns, dbChanges>>
                /\ MapChartStep(TRUE)
                /\ ViewStep
                /\ UNCHANGED cntVars
                /\ UNCHANGED hookVars

\* a phase timeout callback of runAnimationSequence
FirePhase(i) ==
    LET t  == timers[i]
        ts == Remove(timers, i)
    IN  /\ t.kind \in PhaseKinds
        /\ Due(i)
        /\ IF ~mounted
           THEN \* the callback runs; React drops the updates of an unmounted component
                /\ timers' = ts
                /\ last' = "stray"
                /\ strayRuns' = Min(strayRuns + 1, 1)
                /\ UNCHANGED <<variant, mounted, hasError, countdown, netVars, appVars>>
                /\ UNCHANGED <<cyc, sinceTick, envSince, lastGap, cyclesDone, listFixed,
                               initCount, firstCmd, crashes, dbChanges>>
                /\ UNCHANGED <<mcVars, cntVars, viewVars, hookVars>>
           ELSE /\ Commit(all, loading, error,
                          IF t.kind = "swap" THEN t.idx ELSE activeIdx,
                          IF t.kind = "dark" THEN FALSE
                          ELSE IF t.kind = "zoomin" THEN TRUE ELSE isLightingUp,
                          IF t.kind = "reveal" THEN TRUE ELSE uiVisible,
                          adminOpen,
                          IF t.kind = "zoomin" THEN PosOf(t.camps[t.idx + 1]) ELSE position,
                          hasInitialized,
                          t.kind = "zoomin", ts)
                /\ last' = t.kind
                /\ cyc' = [cyc EXCEPT !.log = Append(@, [ph  |-> t.kind,
                                                         off |-> sinceTick + t.rem,
                                                         at  |-> sinceTick])]
                /\ cyclesDone' = (IF t.kind = "reveal" /\ listFixed
                                  THEN Min(cyclesDone + 1, MaxCycles) ELSE cyclesDone)
                /\ UNCHANGED <<db, inflight, sinceTick, envSince, lastGap, listFixed,
                               initCount, firstCmd, strayRuns, dbChanges>>
                /\ MapChartStep(t.kind = "zoomin")
                /\ ViewStep
                /\ UNCHANGED cntVars
                /\ UNCHANGED hookVars

----------------------------------------------------------------------------
(* TVErrorBoundary: the countdown interval armed by componentDidCatch *)
FireCountdown(i) ==
    /\ timers[i].kind = "countdown"
    /\ Due(i)
    /\ IF countdown - 1 <= 0
       THEN Reload
       ELSE /\ countdown' = countdown - 1
            /\ timers' = [timers EXCEPT ![i].rem = T_COUNTDOWN_TICK]
            /\ last' = "countdown"
            /\ UNCHANGED <<variant, mounted, hasError, netVars, appVars>>
            /\ UNCHANGED <<cyc, sinceTick, envSince, lastGap, cyclesDone, listFixed,
                           initCount, firstCmd, strayRuns, crashes, dbChanges>>
            /\ UNCHANGED <<mcVars, cntVars, viewVars, hookVars>>

----------------------------------------------------------------------------
(* useCampaigns and the outside world *)

\* A row of the table changes (possibly in a column that is not displayed); the
\* realtime subscription of a mounted App calls fetchCampaigns: setLoading(true)
DbChange(t) ==
    /\ variant = "flagged"
    /\ dbChanges < MaxDbChanges
    /\ dbChanges' = dbChanges + 1
    /\ db' = t
    /\ last' = "dbchange"
    /\ IF mounted
       THEN /\ Len(inflight) < MaxInflight
            /\ inflight' = Append(inflight, t)
            /\ Commit(all, TRUE, error, activeIdx, isLightingUp, uiVisible, adminOpen,
                      position, hasInitialized, FALSE, timers)
            /\ envSince' = (envSince \/ ~loading)
            /\ MapChartStep(FALSE)
            /\ ViewStep
       ELSE /\ UNCHANGED <<variant, mounted, hasError, countdown, inflight, all, loading,
                           error, appVars, timers, envSince, crashes>>
            /\ UNCHANGED mcVars
            /\ UNCHANGED viewVars
    /\ UNCHANGED <<cyc, sinceTick, lastGap, cyclesDone, listFixed, initCount,
                   firstCmd, strayRuns>>
    /\ UNCHANGED cntVars
    /\ UNCHANGED hookVars

\* the observers of a mounted App stop with it
ObserversGone ==
    /\ cyc' = NoCycle
    /\ sinceTick' = 0
    /\ envSince' = TRUE
    /\ lastGap' = 0
    /\ cyclesDone' = 0
    /\ listFixed' = TRUE
    /\ initCount' = 0
    /\ firstCmd' = "none"

\* the display list changed after a cycle had started: a later index is no
\* longer a count of cycles
StillFixed(a) == listFixed /\ (cyc.camps = <<>> \/ DisplayOf(variant, a) = Display)

\* fetchCampaigns resumes with the rows: setCampaigns(mappedData); setLoading(false)
FetchOk(i) ==
    /\ i \in 1..Len(inflight)
    /\ inflight' = Remove(inflight, i)
    /\ last' = "fetched"
    /\ IF mounted
       THEN /\ Commit(MapRows(inflight[i]), FALSE, error, activeIdx, isLightingUp,
                      uiVisible, adminOpen, position, hasInitialized, TRUE, timers)
            /\ IF RenderThrows(variant, DisplayOf(variant, MapRows(inflight[i])),
                               activeIdx, FALSE)
               THEN ObserversGone
               ELSE /\ envSince' = TRUE
                    /\ listFixed' = StillFixed(MapRows(inflight[i]))
                    /\ cyclesDone' = (IF StillFixed(MapRows(inflight[i]))
                                      THEN cyclesDone ELSE 0)
                    /\ UNCHANGED <<cyc, sinceTick, lastGap, initCount, firstCmd>>
            /\ MapChartStep(FALSE)
            /\ ViewStep
       ELSE /\ UNCHANGED <<variant, mounted, hasError, countdown, all, loading, error,
                           appVars, timers, envSince, listFixed, cyclesDone, crashes>>
            /\ UNCHANGED <<cyc, sinceTick, lastGap, initCount, firstCmd>>
            /\ UNCHANGED mcVars
            /\ UNCHANGED viewVars
    /\ UNCHANGED <<db, strayRuns, dbChanges>>
    /\ UNCHANGED cntVars
    /\ UNCHANGED hookVars

\* a slip: the failure drops the campaigns loaded before
FetchFailClears(i) ==
    /\ i \in 1..Len(inflight)
    /\ inflight' = Remove(inflight, i)
    /\ last' = "fetchfail"
    /\ IF mounted
       THEN /\ Commit(<<>>, FALSE, TRUE, activeIdx, isLightingUp, uiVisible, adminOpen,
                      position, hasInitialized, TRUE, timers)
            /\ envSince' = TRUE
            /\ MapChartStep(FALSE)
            /\ ViewStep
       ELSE /\ UNCHANGED <<variant, mounted, hasError, countdown, all, loading, error,
                           appVars, timers, envSince, crashes>>
            /\ UNCHANGED mcVars
            /\ UNCHANGED viewVars
    /\ UNCHANGED <<db, cyc, sinceTick, lastGap, cyclesDone, listFixed, initCount,
                   firstCmd, strayRuns, dbChanges>>
    /\ UNCHANGED cntVars
    /\ UNCHANGED hookVars

\* fetchCampaigns resumes with an error: setError(e); setLoading(false)
FetchFail(i) ==
    /\ i \in 1..Len(inflight)
    /\ inflight' = Remove(inflight, i)
    /\ last' = "fetchfail"
    /\ IF mounted
       THEN /\ Commit(all, FALSE, TRUE, activeIdx, isLightingUp, uiVisible, adminOpen,
                      position, hasInitialized, TRUE, timers)
            /\ envSince' = TRUE
            /\ MapChartStep(FALSE)
            /\ ViewStep
       ELSE /\ UNCHANGED <<variant, mounted, hasError, countdown, all, loading, error,
                           appVars, timers, envSince, crashes>>
            /\ UNCHANGED mcVars
            /\ UNCHANGED viewVars
    /\ UNCHANGED <<db, cyc, sinceTick, lastGap, cyclesDone, listFixed, initCount,
                   firstCmd, strayRuns, dbChanges>>
    /\ UNCHANGED cntVars
    /\ UNCHANGED hookVars

\* the settings button / the panel's close button: setAdminOpen
ToggleAdmin ==
    /\ variant = "flagged"
    /\ mounted
    /\ Commit(all, loading, error, activeIdx, isLightingUp, uiVisible, ~adminOpen,
              position, hasInitialized, FALSE, timers)
    /\ last' = "admin"
    /\ envSince' = TRUE
    /\ UNCHANGED <<db, inflight, cyc, sinceTick, lastGap, cyclesDone, listFixed,
                   initCount, firstCmd, strayRuns, dbChanges>>
    /\ MapChartStep(FALSE)
    /\ ViewStep
    /\ UNCHANGED cntVars
    /\ UNCHANGED hookVars

\* the App is unmounted: the cycle effect's cleanup runs
Unmount ==
    /\ mounted
    /\ mounted' = FALSE
    /\ timers' = Clear(timers, {"start", "interval"})
    /\ last' = "unmount"
    /\ Gone
    /\ ObserversGone
    /\ UNCHANGED <<variant, hasError, countdown, db, inflight, strayRuns, crashes, dbChanges>>
    /\ McGone
    /\ ViewStep
    /\ UNCHANGED cntVars
    /\ UNCHANGED hookVars

----------------------------------------------------------------------------
Next ==
    \/ Advance
    \/ \E i \in 1..Len(timers) : FireStart(i)
    \/ \E i \in 1..Len(timers) : FireInterval(i)
    \/ \E i \in 1..Len(timers) : FirePhase(i)
    \/ \E i \in 1..Len(timers) : FireCountdown(i)
    \/ \E t \in Tables : DbChange(t)
    \/ \E i \in 1..Len(inflight) : FetchOk(i)
    \/ \E i \in 1..Len(inflight) : FetchFail(i)
    \/ Unmount

Spec == Init /\ [][Next]_vars

\* the same program on a host under load and with the admin panel in use, the
\* table left alone
NextLoad ==
    \/ \E l \in 0..MaxLate : AdvanceLate(l)
    \/ \E i \in 1..Len(timers) : FireStart(i)
    \/ \E i \in 1..Len(timers) : FireInterval(i)
    \/ \E i \in 1..Len(timers) : FirePhase(i)
    \/ \E i \in 1..Len(timers) : FireCountdown(i)
    \/ \E i \in 1..Len(inflight) : FetchOk(i)
    \/ \E i \in 1..Len(inflight) : FetchFail(i)
    \/ ToggleAdmin
    \/ Unmount

SpecLoad == Init /\ [][NextLoad]_vars

----------------------------------------------------------------------------
(* AdminPanel *)

\* !currentStatus: of true it is false; of false, null and undefined it is true
NotStatus(st) == IF st = "true" THEN "false" ELSE "true"

\* update({ is_active: v }).eq('id', id)
WriteActive(rows, id, v) ==
    [i \in 1..Len(rows) |->
        IF rows[i].id = id THEN [rows[i] EXCEPT !.is_active = v] ELSE rows[i]]

\* the eye button of the k-th campaign of the panel's list (the campaigns the
\* App fetched): toggleActive(camp.id, camp.is_active); the table changes and
\* the subscription fetches again
ToggleActive(k) ==
    /\ mounted
    /\ adminOpen
    /\ k \in 1..Len(all)
    /\ DbChange(WriteActive(db, all[k].id, NotStatus(all[k].is_active)))

\* the dashboard with its admin panel in use
NextAdmin ==
    \/ Advance
    \/ \E i \in 1..Len(timers) : FireStart(i)
    \/ \E i \in 1..Len(timers) : FireInterval(i)
    \/ \E i \in 1..Len(timers) : FirePhase(i)
    \/ \E i \in 1..Len(timers) : FireCountdown(i)
    \/ \E i \in 1..Len(inflight) : FetchOk(i)
    \/ \E i \in 1..Len(inflight) : FetchFail(i)
    \/ ToggleAdmin
    \/ \E k \in 1..Len(all) : ToggleActive(k)

SpecAdmin == Init /\ [][NextAdmin]_vars

\* the program left running: the page stays open and the table is left alone,
\* the admin panel is opened and closed at will.  The host lets time pass, runs
\* a timer callback that stays due, and delivers every response; nothing
\* obliges the operator to leave the panel alone.
NextLive ==
    \/ Advance
    \/ \E i \in 1..Len(timers) : FireStart(i)
    \/ \E i \in 1..Len(timers) : FireInterval(i)
    \/ \E i \in 1..Len(timers) : FirePhase(i)
    \/ \E i \in 1..Len(timers) : FireCountdown(i)
    \/ \E i \in 1..Len(inflight) : FetchOk(i)
    \/ \E i \in 1..Len(inflight) : FetchFail(i)
    \/ ToggleAdmin

FairHost ==
    /\ WF_vars(Advance)
    /\ WF_vars(\E i \in 1..Len(timers) : FireStart(i))
    /\ WF_vars(\E i \in 1..Len(timers) : FireInterval(i))
    /\ WF_vars(\E i \in 1..Len(timers) : FirePhase(i))
    /\ WF_vars(\E i \in 1..Len(timers) : FireCountdown(i))
    /\ WF_vars(\E i \in 1..Len(inflight) : FetchOk(i) \/ FetchFail(i))

SpecLive == Init /\ [][NextLive]_vars /\ FairHost

----------------------------------------------------------------------------
(* The components on their own: a MapChart whose parent supplies positions, an
   AnimatedCounter whose parent supplies values; no App, no timers *)
NoApp ==
    /\ variant = "legacy"
    /\ mounted = FALSE
    /\ hasError = FALSE
    /\ countdown = 0
    /\ db = <<>>
    /\ inflight = <<>>
    /\ all = <<>>
    /\ loading = FALSE
    /\ error = FALSE
    /\ activeIdx = 0
    /\ isLightingUp = FALSE
    /\ uiVisible = FALSE
    /\ adminOpen = FALSE
    /\ position = Neutral
    /\ hasInitialized = FALSE
    /\ timers = <<>>
    /\ last = "load"
    /\ cyc = NoCycle
    /\ sinceTick = 0
    /\ envSince = TRUE
    /\ lastGap = 0
    /\ cyclesDone = 0
    /\ listFixed = TRUE
    /\ initCount = 0
    /\ firstCmd = "none"
    /\ strayRuns = 0
    /\ crashes = 0
    /\ dbChanges = 0
    /\ card = NoCard
    /\ mapActive = ""

\* a target whose latitude has no point in the projection
Unprojectable == [coordinates |-> <<-5500, 9500>>, zoom |-> 30]

\* the positions a parent supplies
Targets == { Neutral, PosOf(CAMPAIGNS[1]), PosOf(CAMPAIGNS[4]), Unprojectable }

InitMapChart ==
    /\ NoApp
    /\ mcMounted = TRUE
    /\ cam = Origin
    /\ camAt = Origin
    /\ prevZoom = Neutral.zoom
    /\ anims = MapEffect(<<>>, Origin, Neutral.zoom, Neutral)
    /\ supplied = 0
    /\ NoCounter
    /\ NoHooks

\* the parent renders MapChart with a new position object
Supply(p) ==
    /\ mcMounted
    /\ supplied < MaxSupplies
    /\ supplied' = supplied + 1
    /\ position' = p
    /\ McRetarget(p)
    /\ UNCHANGED <<variant, mounted, hasError, countdown, netVars, timers, histVars>>
    /\ UNCHANGED <<activeIdx, isLightingUp, uiVisible, adminOpen, hasInitialized>>
    /\ UNCHANGED cntVars
    /\ UNCHANGED hookVars
    /\ UNCHANGED viewVars

\* frames of the running animation during d
Frame(d) ==
    /\ mcMounted
    /\ anims # <<>>
    /\ AnimateBy(d)
    /\ UNCHANGED <<variant, mounted, hasError, countdown, netVars, appVars, timers, histVars>>
    /\ UNCHANGED cntVars
    /\ UNCHANGED hookVars
    /\ UNCHANGED viewVars

NextMapChart ==
    \/ \E p \in Targets : Supply(p)
    \/ \E d \in {FrameStep, 2 * FrameStep} : Frame(d)

SpecMapChart == InitMapChart /\ [][NextMapChart]_vars

\* the values a parent supplies
Values == {300, 700, 1000}

\* AnimatedCounter mounts: useState(0), then the effect
InitCounter ==
    /\ NoApp
    /\ mcMounted = FALSE
    /\ cam = Origin
    /\ camAt = Origin
    /\ prevZoom = 0
    /\ anims = <<>>
    /\ supplied = 0
    /\ cntValue \in Values
    /\ cntDisplay = 0
    /\ cntLoops = << NewLoop(0, cntValue) >>
    /\ cntPrev = 0
    /\ cntFrom = 0
    /\ cntStale = 0
    /\ cntChanges = 0
    /\ NoHooks

\* the parent renders the counter with another value: the effect runs again;
\* it has no cleanup, the frame loops that run keep running
SetValue(v) ==
    /\ v # cntValue
    /\ cntChanges < MaxChanges
    /\ cntChanges' = cntChanges + 1
    /\ cntPrev' = cntValue
    /\ cntValue' = v
    /\ cntFrom' = cntDisplay
    /\ cntLoops' = Append(cntLoops, NewLoop(cntDisplay, v))
    /\ UNCHANGED <<cntDisplay, cntStale>>
    /\ UNCHANGED <<variant, mounted, hasError, countdown, netVars, appVars, timers, histVars>>
    /\ UNCHANGED mcVars
    /\ UNCHANGED viewVars
    /\ UNCHANGED hookVars

\* a frame d after the previous one: the callbacks of all frame loops run in the
\* order they were requested, each calls setDisplayValue, and the render that
\* follows shows the value written last; a loop whose progress is 1 ends
CounterFrame(d) ==
    LET adv == [i \in 1..Len(cntLoops) |->
                   [cntLoops[i] EXCEPT !.el = Min(@ + d, COUNT_DURATION)]]
        new == adv[Len(adv)]
    IN  /\ cntLoops # <<>>
        /\ cntDisplay' = CounterValue(new.start, new.end, new.el)
        /\ cntLoops' = SelectSeq(adv, LAMBDA l : l.el < COUNT_DURATION)
        /\ cntStale' = (IF Len(cntLoops) > 1 THEN 1 ELSE cntStale)
        /\ UNCHANGED <<cntValue, cntPrev, cntFrom, cntChanges>>
        /\ UNCHANGED <<variant, mounted, hasError, countdown, netVars, appVars, timers,
                       histVars>>
        /\ UNCHANGED mcVars
        /\ UNCHANGED viewVars
        /\ UNCHANGED hookVars

NextCounter ==
    \/ \E v \in Values : SetValue(v)
    \/ \E d \in {CounterStep, COUNT_DURATION \div 2} : CounterFrame(d)

SpecCounter == InitCounter /\ [][NextCounter]_vars

\* the same counter in a browser that keeps drawing: a frame that was requested
\* is run
SpecCounterLive ==
    InitCounter /\ [][NextCounter]_vars
                /\ WF_vars(\E d \in {CounterStep, COUNT_DURATION \div 2} : CounterFrame(d))

----------------------------------------------------------------------------
(* usePerformanceMonitor on its own: a component that uses the hook, the
   browser's frames and the memory interval *)
FPS_THRESHOLD       == 20       \* fpsThreshold = 20
MEMORY_THRESHOLD_MB == 100      \* memoryThresholdMB = 100
LOW_FPS_RELOAD      == 100      \* lowFPSCountRef.current > 100
NumHandles          == 3        \* animation frame handles that are told apart
MaxRun              == 102      \* consecutive low frames that are counted

\* the times between two frames that are tried, in ms: 62 fps, 20 fps, 16 fps
FrameDeltas == {16, 50, 60}

\* the memory readings that are tried, in MB (0: performance.memory is missing)
MemReadings == {0, 80, 120, 160}

NoMapChart ==
    /\ mcMounted = FALSE
    /\ cam = Origin
    /\ camAt = Origin
    /\ prevZoom = 0
    /\ anims = <<>>
    /\ supplied = 0

\* fps = 1000 / delta; fps < fpsThreshold
IsLowFPS(delta) == 1000 < FPS_THRESHOLD * delta

\* usedMB > memoryThresholdMB * 1.5
IsCriticalMemory(usedMB) == 2 * usedMB > 3 * MEMORY_THRESHOLD_MB

\* requestAnimationFrame returns a handle that no pending callback has
NewHandle(pending) == CHOOSE h \in 1..NumHandles : h \notin pending

\* the effect of an enabled monitor: setInterval, requestAnimationFrame(checkFPS)
MonEffect(m) ==
    LET h == NewHandle(m.raf)
    IN  [m EXCEPT !.on = TRUE, !.memTimer = TRUE, !.raf = @ \cup {h},
                  !.fpsCheckRef = h]

\* a slip: the cleanup leaves the requested frame alone
MonCleanupNoCancel(m) == [m EXCEPT !.on = FALSE, !.memTimer = FALSE]

\* the cleanup: clearInterval(memoryInterval), cancelAnimationFrame(fpsCheckRef.current)
MonCleanup(m) ==
    [m EXCEPT !.on = FALSE, !.memTimer = FALSE, !.raf = @ \ {m.fpsCheckRef}]

\* the page after window.location.reload(): the hook of a new page, enabled
MonLoaded(at) == MonEffect([MonOff EXCEPT !.reloadAt = at])

InitMonitor ==
    /\ NoApp
    /\ NoMapChart
    /\ NoCounter
    /\ mon = MonEffect(MonOff)
    /\ ar = ArOff
    /\ eb = EbOff

NoMonitorChange ==
    /\ UNCHANGED <<variant, mounted, hasError, countdown, netVars, appVars, timers, histVars>>
    /\ UNCHANGED <<mcVars, cntVars, viewVars, ar, eb>>

\* the browser runs a requested frame callback, delta ms after the frame
\* before: checkFPS
MonFrame(h, delta) ==
    LET low == IsLowFPS(delta)
        n   == IF low THEN mon.lowFPSCount + 1 ELSE 0
        run == IF low THEN Min(mon.lowRun + 1, MaxRun) ELSE 0
        h2  == NewHandle(mon.raf \ {h})
    IN  /\ h \in mon.raf
        /\ mon' = (IF low /\ n > LOW_FPS_RELOAD
                   THEN MonLoaded(run)
                   ELSE [mon EXCEPT !.lowFPSCount = n, !.lowRun = run,
                                    !.raf = (@ \ {h}) \cup {h2}, !.fpsCheckRef = h2,
                                    !.stray = IF mon.on THEN @ ELSE 1])
        /\ NoMonitorChange

\* the memory interval's callback with the reading usedMB
MemCheck(usedMB) ==
    /\ mon.memTimer
    /\ mon' = (IF usedMB > MEMORY_THRESHOLD_MB /\ IsCriticalMemory(usedMB)
               THEN MonLoaded(mon.reloadAt)
               ELSE [mon EXCEPT !.lastMem = usedMB,
                                !.stray = IF mon.on THEN @ ELSE 1])
    /\ NoMonitorChange

\* enabled becomes false, or the component unmounts: the cleanup runs
MonDisable ==
    /\ mon.on
    /\ mon' = MonCleanup(mon)
    /\ NoMonitorChange

\* enabled becomes true again: the effect runs, the refs are the old ones
MonEnable ==
    /\ ~mon.on
    /\ Cardinality(mon.raf) < NumHandles
    /\ mon' = MonEffect(mon)
    /\ NoMonitorChange

NextMonitor ==
    \/ \E h \in 1..NumHandles, delta \in FrameDeltas : MonFrame(h, delta)
    \/ \E usedMB \in MemReadings : MemCheck(usedMB)
    \/ MonDisable
    \/ MonEnable

SpecMonitor == InitMonitor /\ [][NextMonitor]_vars

----------------------------------------------------------------------------
(* useAutoReload on its own: a component that renders the hook with options *)

\* the intervalSeconds that are tried: a negative one, 0 (the desktop
\* configuration: disabled), 6 hours (the TV configuration)
Intervals == {-1, 0, 21600}

\* a statement that may throw, run after what has happened so far (o): it is
\* skipped when an exception is already on its way up
Run(o, what, throws) ==
    IF ~o.ok THEN o
    ELSE [log |-> Append(o.log, IF throws THEN what \o "Threw" ELSE what),
          ok  |-> ~throws]

\* a slip: the statement is not wrapped, its exception goes up
NotCaught(before, after) == after

\* try { statement } catch { log or ignore }: what has happened after it, given
\* what had happened before it and what the statement made of that
Caught(before, after) ==
    IF ~before.ok THEN before ELSE [after EXCEPT !.ok = TRUE]

\* the timeout's callback: onBeforeReload if provided, the localStorage write,
\* window.location.reload()
ReloadCallback(hasCb, cbThrows, storeThrows) ==
    LET o0 == [log |-> <<>>, ok |-> TRUE]
        o1 == IF hasCb THEN Caught(o0, Run(o0, "before", cbThrows)) ELSE o0
        o2 == Caught(o1, Run(o1, "store", storeThrows))
    IN  Run(o2, "reload", FALSE)

\* the effect: no timer unless enabled with a positive interval
ArEffect(en, secs) == en /\ secs > 0

InitAutoReload ==
    /\ NoApp
    /\ NoMapChart
    /\ NoCounter
    /\ mon = MonOff
    /\ eb = EbOff
    /\ \E en \in BOOLEAN, secs \in Intervals, cb \in BOOLEAN, th \in BOOLEAN :
          ar = [enabled |-> en, secs |-> secs, hasCb |-> cb, cbThrows |-> th,
                timer |-> ArEffect(en, secs), log |-> <<>>, firedCb |-> FALSE]

NoAutoReloadChange ==
    /\ UNCHANGED <<variant, mounted, hasError, countdown, netVars, appVars, timers, histVars>>
    /\ UNCHANGED <<mcVars, cntVars, viewVars, mon, eb>>

\* the component renders the hook with other options: cleanup, then the effect
ArRender(en, secs, cb, th) ==
    /\ <<en, secs, cb, th>> # <<ar.enabled, ar.secs, ar.hasCb, ar.cbThrows>>
    /\ ar' = [ar EXCEPT !.enabled = en, !.secs = secs, !.hasCb = cb, !.cbThrows = th,
                        !.timer = ArEffect(en, secs)]
    /\ NoAutoReloadChange

\* the timeout fires; after a reload the hook of the new page runs its effect
\* with the same options, without one the timeout is spent
ArFire(storeThrows) ==
    LET out == ReloadCallback(ar.hasCb, ar.cbThrows, storeThrows)
        reloaded == out.log # <<>> /\ out.log[Len(out.log)] = "reload"
    IN  /\ ar.timer
        /\ ar' = [ar EXCEPT !.log = out.log, !.firedCb = ar.hasCb,
                            !.timer = reloaded /\ ArEffect(ar.enabled, ar.secs)]
        /\ NoAutoReloadChange

NextAutoReload ==
    \/ \E en \in BOOLEAN, secs \in Intervals, cb \in BOOLEAN, th \in BOOLEAN :
          ArRender(en, secs, cb, th)
    \/ \E storeThrows \in BOOLEAN : ArFire(storeThrows)

SpecAutoReload == InitAutoReload /\ [][NextAutoReload]_vars

----------------------------------------------------------------------------
(* TVErrorBoundary on its own: a boundary with its props whose child may throw *)

\* the reloadDelayMs that are tried
Delays == {0, 500, 1000, 1500, 2500, 3000, 4000, 5000}

InitBoundary ==
    /\ NoApp
    /\ NoMapChart
    /\ NoCounter
    /\ mon = MonOff
    /\ ar = ArOff
    /\ \E ms \in Delays, au \in BOOLEAN :
          eb = [delay |-> ms, auto |-> au, reloading |-> FALSE]

NoBoundaryChange ==
    /\ UNCHANGED <<variant, mounted, netVars, appVars>>
    /\ UNCHANGED <<cyc, envSince, lastGap, cyclesDone, listFixed, initCount,
                   firstCmd, strayRuns, dbChanges>>
    /\ UNCHANGED <<mcVars, cntVars, viewVars, mon, ar>>

\* the child throws while rendering: getDerivedStateFromError, componentDidCatch
Catch ==
    /\ ~hasError
    /\ hasError' = TRUE
    /\ countdown' = CountdownFrom(eb.delay)
    /\ timers' = (IF eb.auto
                  THEN <<Timer("countdown", T_COUNTDOWN_TICK, 0, <<>>)>>
                  ELSE <<>>)
    /\ last' = "catch"
    /\ sinceTick' = 0
    /\ crashes' = Min(crashes + 1, MaxCrashes)
    /\ eb' = eb
    /\ NoBoundaryChange

\* the countdown interval's callback: the updater writes prevState.countdown - 1
\* and, at 0 or below, clears the interval and calls window.location.reload()
CountdownTick(i) ==
    LET newCountdown == countdown - 1
    IN  /\ timers[i].kind = "countdown"
        /\ Due(i)
        /\ countdown' = newCountdown
        /\ timers' = (IF newCountdown <= 0 THEN Remove(timers, i)
                      ELSE [timers EXCEPT ![i].rem = T_COUNTDOWN_TICK])
        /\ eb' = [eb EXCEPT !.reloading = newCountdown <= 0]
        /\ last' = "countdown"
        /\ UNCHANGED <<hasError, sinceTick, crashes>>
        /\ NoBoundaryChange

\* the page is loaded again: a new boundary with the same props
Navigate ==
    /\ eb.reloading
    /\ hasError' = FALSE
    /\ countdown' = 0
    /\ timers' = <<>>
    /\ eb' = [eb EXCEPT !.reloading = FALSE]
    /\ last' = "load"
    /\ sinceTick' = 0
    /\ crashes' = crashes
    /\ NoBoundaryChange

NextBoundary ==
    \/ Advance
    \/ Catch
    \/ \E i \in 1..Len(timers) : CountdownTick(i)
    \/ Navigate

SpecBoundary == InitBoundary /\ [][NextBoundary]_vars

----------------------------------------------------------------------------
(* Properties *)

IsPrefix(s, t) == Len(s) <= Len(t) /\ \A i \in 1..Len(s) : s[i] = t[i]

HasTimer(kinds) == \E i \in 1..Len(timers) : timers[i].kind \in kinds

\* the phases of a cycle and their offsets from the tick, as documented
ClaimedPhases == << <<"dark", 15>>, <<"swap", 25>>, <<"zoomin", 40>>, <<"reveal", 80>> >>

RanPhases == [i \in 1..Len(cyc.log) |-> <<cyc.log[i].ph, cyc.log[i].off>>]

\* C1: the phase callbacks of a cycle run in the documented order, each due at
\* its documented offset from the tick, and each does its documented update:
\* tick: UI hidden, camera to neutral; 1.5 s: highlight off; 2.5 s: index
\* advanced by one modulo the length; 4.0 s: highlight on, camera to the next
\* campaign; 8.0 s: UI shown.  Checked on a host that runs timers late.
C1_PhasesInOrder ==
    mounted =>
        /\ IsPrefix(RanPhases, ClaimedPhases)
        /\ (last = "tick" => ~uiVisible /\ position = Neutral)
        /\ (last = "dark" => ~isLightingUp)
        /\ (last = "swap" => activeIdx = (cyc.idx + 1) % Len(cyc.camps))
        /\ (last = "zoomin" =>
                /\ isLightingUp
                /\ position = PosOf(cyc.camps[((cyc.idx + 1) % Len(cyc.camps)) + 1]))
        /\ (last = "reveal" => uiVisible)

\* a whole cycle has run, and one of its callbacks ran later than it was due
C1_Witness ==
    /\ mounted
    /\ last = "reveal"
    /\ Len(cyc.log) = 4
    /\ \E i \in 1..4 : cyc.log[i].at > cyc.log[i].off

\* C2: consecutive cycle starts are exactly 14 s apart when nothing but the
\* cycle's own state updates happened in between (host on time).
C2_CycleEvery14s == (mounted /\ lastGap # 0) => lastGap = 140

\* C3: with a fixed display list of length L, after n completed cycles the
\* active index is n mod L.
C3_IndexIsCyclesModLength ==
    (mounted /\ listFixed /\ cyclesDone < MaxCycles /\ ~HasTimer(PhaseKinds))
        => activeIdx = cyclesDone % Len(Display)

\* three cycles over a list of three: the index has wrapped to 0
C3_Witness ==
    /\ mounted /\ listFixed /\ ~HasTimer(PhaseKinds)
    /\ Len(Display) = 3 /\ cyclesDone = 3 /\ activeIdx = 0

\* C4: every change of activeIdx of a mounted App is made while the UI is
\* hidden, no region is highlighted and the camera target is neutral.
C4_SwapInBlindSpot ==
    [][ (mounted /\ mounted' /\ activeIdx' # activeIdx)
            => (~uiVisible /\ ~isLightingUp /\ position = Neutral) ]_vars

\* the index has just been advanced, in the blind spot
C4_Witness ==
    /\ mounted /\ last = "swap" /\ activeIdx # cyc.idx
    /\ ~uiVisible /\ ~isLightingUp /\ position = Neutral

C6_NoCrashReloadLoop == crashes < 2

\* C7: the delivery of a changed list to an initialized App leaves the
\* displayed campaign and the highlighted region as they are.
C7_DeliveryKeepsDisplay ==
    [][ (mounted /\ mounted' /\ hasInitialized /\ all # <<>> /\ all' # all)
            => (CurrentCampaign' = CurrentCampaign /\ ActiveState' = ActiveState) ]_vars

\* C8: no sequencer timer callback runs after the App was unmounted.
C8_NoCallbackAfterUnmount == strayRuns = 0

\* C9: the camera command at the 4.0 s offset targets a campaign of the
\* current display list.
C9_ZoomTargetsCurrentList ==
    (mounted /\ last = "zoomin")
        => \E i \in 1..Len(Display) : position = PosOf(Display[i])

\* C10: (flagged variant) at most one initial positioning runs per page load,
\* it is the first camera command, it targets the first campaign of the display
\* list, and no interval is armed, so no tick runs, before it.
C10_InitOnceAndFirst ==
    (variant = "flagged" /\ mounted) =>
        /\ initCount <= 1
        /\ (hasInitialized <=> initCount = 1)
        /\ firstCmd \in {"none", "init"}
        /\ (initCount = 0 => ~HasTimer({"interval"}) /\ cyc = NoCycle /\ last # "idle")
        /\ (HasTimer({"interval"}) => ~HasTimer({"start"}))
        /\ (last = "init" => position = PosOf(Display[1]))

\* the initial positioning has just run on a fetched list; the interval is armed
C10_Witness ==
    /\ variant = "flagged" /\ mounted /\ last = "init" /\ all # <<>>
    /\ position = PosOf(Display[1]) /\ HasTimer({"interval"})

\* C11: whenever the display list is not empty, activeIdx is an index of it and
\* the displayed campaign is the element at activeIdx (no out-of-range index is
\* held, no fallback element is shown in its place).
C11_IndexInRange ==
    (mounted /\ Len(Display) > 0) =>
        /\ activeIdx < Len(Display)
        /\ CurrentCampaign = <<Display[activeIdx + 1]>>

\* the timers of the kinds given that are pending
Pending(kinds) == {i \in 1..Len(timers) : timers[i].kind \in kinds}

\* the delay runAnimationSequence gives the timeout of a phase
DelayOf(kind) ==
    CASE kind = "dark"   -> T_DARK
      [] kind = "swap"   -> T_SWAP
      [] kind = "zoomin" -> T_ZOOMIN
      [] kind = "reveal" -> T_REVEAL

\* C12: MapChart never runs animations of two targets at once; an animation
\* that has just started starts from the transform displayed at that moment;
\* the running animation leads to the transform of the position supplied last,
\* and with no animation running that transform is displayed.
C12_RetargetReplaces ==
    mcMounted =>
        /\ Len(anims) <= 1
        /\ \A i \in 1..Len(anims) :
              /\ anims[i].to = TargetOf(position)
              /\ (anims[i].el = 0 => (anims[i].from = cam /\ camAt = cam))
        /\ (anims = <<>> => cam = TargetOf(position))

\* a target arrived while the animation to the previous one was under way: the
\* new animation starts at a transform that is no target's and not the origin
C12_Witness ==
    /\ mcMounted /\ supplied >= 1
    /\ Len(anims) = 1 /\ anims[1].el = 0 /\ anims[1].from = cam
    /\ cam # Origin /\ \A p \in Targets : cam # TargetOf(p)

\* C13: after a target that cannot be projected the displayed transform stays
\* what it was when the target arrived.
C13_BadTargetKeepsTransform ==
    (mcMounted /\ Project(position.coordinates) = <<>>) => cam = camAt

\* C14: a target equal to the one supplied last, supplied while no animation
\* runs, starts no animation and leaves the displayed transform as it is.
C14_SameTargetIsNoOp ==
    [][ (mcMounted /\ anims = <<>> /\ supplied' = supplied + 1
            /\ position'.coordinates = position.coordinates
            /\ position'.zoom = position.zoom)
          => (anims' = <<>> /\ cam' = cam) ]_vars

\* C15: an animation started by a command of the sequencer has the 1.5 s
\* ease-in-out profile exactly when the target is the neutral position and the
\* 4.0 s ease-out profile exactly when the target is a campaign's focus.
C15_ProfileByTarget ==
    (mounted /\ mcMounted /\ last \in {"tick", "init", "zoomin"}
        /\ anims # <<>> /\ anims[Len(anims)].el = 0)
    => IF position = Neutral
       THEN /\ anims[Len(anims)].dur = DUR_ZOOM_OUT
            /\ anims[Len(anims)].ease = "EASE_ZOOM_OUT"
       ELSE /\ anims[Len(anims)].dur = DUR_ZOOM_IN
            /\ anims[Len(anims)].ease = "EASE_ZOOM_IN"

\* C16: when isLightingUp is set false (1.5 s) the animation to the neutral
\* position commanded at the tick has ended and the neutral transform is
\* displayed; when uiVisible is set true (8.0 s) the animation to the campaign
\* commanded at 4.0 s has ended and the campaign's transform is displayed.
C16_AnimationsDoneAtFlags ==
    (mounted /\ mcMounted) =>
        /\ (last = "dark" => (anims = <<>> /\ cam = TargetOf(Neutral)))
        /\ (last = "reveal" =>
               /\ anims = <<>>
               /\ position = PosOf(cyc.camps[((cyc.idx + 1) % Len(cyc.camps)) + 1])
               /\ cam = TargetOf(position))

\* a whole cycle has run; at its reveal the camera rests on the campaign
C16_Witness ==
    /\ mounted /\ mcMounted /\ last = "reveal" /\ Len(cyc.log) = 4
    /\ uiVisible /\ anims = <<>> /\ position # Neutral /\ cam = TargetOf(position)

\* C17 as stated: after a change of the value prop from a to b the displayed
\* value never decreases from frame to frame when b > a and never increases
\* when b < a.
C17_MonotoneByProp ==
    [][ (cntLoops # <<>> /\ cntChanges' = cntChanges) =>
            /\ (cntValue > cntPrev => cntDisplay' >= cntDisplay)
            /\ (cntValue < cntPrev => cntDisplay' <= cntDisplay) ]_vars

\* C17 as amended: after a change of the value prop to b that arrived while d
\* was displayed, the displayed value moves from frame to frame from d towards
\* b only, never beyond b, and is b when the last frame loop has ended.
C17_MonotoneFromShown ==
    [][ (cntLoops # <<>> /\ cntChanges' = cntChanges) =>
            /\ (cntValue >= cntFrom =>
                    (cntDisplay <= cntDisplay' /\ cntDisplay' <= cntValue))
            /\ (cntValue <= cntFrom =>
                    (cntValue <= cntDisplay' /\ cntDisplay' <= cntDisplay))
            /\ (cntLoops' = <<>> => cntDisplay' = cntValue) ]_vars

\* a value below the previous one arrived while a count-up showed less than
\* it: the display has risen to it
C17_Witness ==
    /\ cntChanges >= 1 /\ cntLoops = <<>> /\ cntDisplay = cntValue
    /\ cntValue < cntPrev /\ cntFrom < cntValue /\ cntFrom > 0

\* C18: a frame loop that has just started starts from the displayed value,
\* and no frame loop but the newest ever writes the displayed value.
C18_OnlyNewestLoopWrites ==
    /\ cntStale = 0
    /\ \A i \in 1..Len(cntLoops) : cntLoops[i].el = 0 => cntLoops[i].start = cntDisplay

\* C19: while the error screen is shown exactly one countdown interval is
\* pending, the countdown started at floor(reloadDelayMs / 1000) = 3 and has
\* lost one for every full second since the error, and it is never 0 on the
\* screen: the reload comes with the tick that would make it 0, 3 s after the
\* error.
C19_CountdownThenReload ==
    hasError =>
        /\ Cardinality(Pending({"countdown"})) = 1
        /\ countdown \in 1..3
        /\ \A i \in Pending({"countdown"}) :
              /\ timers[i].rem \in 0..T_COUNTDOWN_TICK
              /\ sinceTick = (3 - countdown) * 10 + (T_COUNTDOWN_TICK - timers[i].rem)

\* the error screen 3 s after the error, the countdown at 1 and its tick due
C19_Witness ==
    /\ hasError /\ countdown = 1 /\ sinceTick = 30
    /\ \E i \in Pending({"countdown"}) : timers[i].rem = 0

\* C20: a mounted App has at most one cycle interval armed and at most four
\* phase timeouts pending, all of one cycle (one of each kind, of the same
\* closure); after a tick, until its first phase runs, the pending phase timeouts
\* are exactly the four that tick scheduled.
C20_NoTimerLeak ==
    mounted =>
        /\ Cardinality(Pending({"interval"})) <= 1
        /\ Cardinality(Pending(PhaseKinds)) <= 4
        /\ \A i, j \in Pending(PhaseKinds) :
              /\ timers[i].idx = timers[j].idx
              /\ timers[i].camps = timers[j].camps
              /\ (i # j => timers[i].kind # timers[j].kind)
        /\ (last = "tick" =>
              /\ Cardinality(Pending(PhaseKinds)) = 4
              /\ \A i \in Pending(PhaseKinds) :
                    timers[i].rem = DelayOf(timers[i].kind) - sinceTick)

\* a tick of a later cycle has just run on a fetched list that replaced the
\* built-in one
C20_Witness ==
    /\ mounted /\ last = "tick" /\ all # <<>> /\ activeIdx >= 1
    /\ Cardinality(Pending(PhaseKinds)) = 4
    /\ Cardinality(Pending({"interval"})) = 1

\* C21: whenever an interval tick hides the interface, the time bar of the card
\* that is on the screen has run for exactly the 14 s it takes to fill: it
\* reaches 100% at this instant, not before and not after.
C21_BarFullAtTransition ==
    [][(mounted /\ uiVisible /\ card.on /\ mounted' /\ ~uiVisible' /\ last' = "tick")
          => card.el = BAR_DURATION]_vars

\* C22: with a fixed display list of three campaigns shown from index 0, in the
\* cycle that follows the first display period (the one the first tick starts),
\* from offset 2.5 s until the reveal, once the callbacks due have run, the
\* active index is 1 (the second campaign) and uiVisible is false.
C22_SecondCycleShowsB ==
    (/\ mounted /\ listFixed /\ Len(Display) = 3
     /\ cyc.camps = Display /\ cyc.idx = 0 /\ cyclesDone = 0
     /\ sinceTick >= 25 /\ sinceTick < 80
     /\ \A i \in 1..Len(timers) : timers[i].rem > 0)
        => (activeIdx = 1 /\ ~uiVisible)

\* the swap of that cycle has just run, 2.5 s after the tick: B is current
C22_Witness ==
    /\ mounted /\ listFixed /\ Display = MapRows(<<R3, R1, R2>>)
    /\ cyc.camps = Display /\ cyc.idx = 0 /\ cyclesDone = 0
    /\ sinceTick = 25 /\ last = "swap"
    /\ CurrentCampaign = <<MapRow(R1)>> /\ ~uiVisible

\* C23: while the App is mounted the regions drawn highlighted are none when
\* isLightingUp is false or the displayed campaign's stateId is no region's
\* name, and otherwise exactly the one region named by that stateId; every
\* campaign that is displayed renders, whether its stateId names a region or not.
C23_HighlightIsDisplayedState ==
    mounted =>
        /\ CurrentCampaign # <<>>
        /\ LET st == CurrentCampaign[1].stateId
           IN  Highlighted = (IF ~isLightingUp \/ st \notin Regions THEN {} ELSE {st})

\* the map is lit for a campaign whose stateId is no region's name, after a
\* campaign whose region was highlighted: nothing is highlighted
C23_Witness ==
    /\ mounted /\ isLightingUp /\ last = "zoomin"
    /\ CurrentCampaign = <<MapRow(R3)>>
    /\ R3.state_id \notin Regions
    /\ Highlighted = {}
    /\ cyclesDone >= 1

\* C24: when MapChart is at rest on a target whose coordinates have a projected
\* point (px, py), with zoom z, its transform is x = W/2 - px*z, y = H/2 - py*z,
\* scale = z, and the projected point is drawn at the centre of the viewport.
C24_TargetIsCentred ==
    (mcMounted /\ anims = <<>> /\ Project(position.coordinates) # <<>>) =>
        LET pt == Project(position.coordinates)
            z  == position.zoom
        IN  /\ cam.k = z
            /\ cam.x = MAP_WIDTH \div 2 - (pt[1] * z) \div 10
            /\ cam.y = MAP_HEIGHT \div 2 - (pt[2] * z) \div 10
            /\ (pt[1] * cam.k) \div 10 + cam.x = MAP_WIDTH \div 2
            /\ (pt[2] * cam.k) \div 10 + cam.y = MAP_HEIGHT \div 2

\* the zoom-in to a campaign, started while another animation ran, has ended
C24_Witness ==
    /\ mcMounted /\ anims = <<>> /\ supplied >= 2
    /\ position = PosOf(CAMPAIGNS[4])
    /\ camAt # Origin /\ \A p \in Targets : camAt # TargetOf(p)
    /\ cam.k = CAMPAIGNS[4].zoom /\ cam.x # MAP_WIDTH \div 2

\* C25: every step of the sequencer (the initial positioning, an interval tick,
\* a phase timeout) leaves the fetched campaigns, the table, the display list
\* with every record in it, the fetch state and adminOpen as they were: of the
\* App's state it writes only uiVisible, isLightingUp, activeIdx,
\* hasInitialized and position.
C25_SequencerKeepsCampaigns ==
    [][(\E i \in 1..Len(timers) : FireStart(i) \/ FireInterval(i) \/ FirePhase(i))
          => /\ all' = all
             /\ Display' = Display
             /\ UNCHANGED <<db, inflight, loading, error, adminOpen>>]_vars

\* a zoom-in on a fetched list has just run: index, camera and light are
\* written, the three fetched campaigns are all there
C25_Witness ==
    /\ mounted /\ last = "zoomin" /\ activeIdx = 2 /\ isLightingUp
    /\ all = MapRows(<<R3, R1, R2>>) /\ Display = all
    /\ position = PosOf(MapRow(R2))

\* C26: while the fetched list is empty (the first fetch not yet back, failed,
\* or back with no rows) the App's display list is the built-in CAMPAIGNS list,
\* the displayed campaign is one of it, and the sequencer is armed over it: the
\* start timeout before the initial positioning, the cycle interval after.
C26_EmptyFetchUsesStatic ==
    (mounted /\ all = <<>>) =>
        /\ Display = CAMPAIGNS
        /\ Len(Display) > 0
        /\ CurrentCampaign = <<CAMPAIGNS[activeIdx + 1]>>
        /\ \A i \in Pending({"start", "interval"}) : timers[i].camps = CAMPAIGNS
        /\ (variant = "flagged" =>
              IF hasInitialized THEN Cardinality(Pending({"interval"})) = 1
              ELSE Cardinality(Pending({"start"})) = 1)

\* the first fetch has failed and the cycle has moved on to the second of the
\* built-in campaigns
C26_Witness ==
    /\ mounted /\ variant = "flagged" /\ all = <<>> /\ error /\ ~loading
    /\ last = "reveal" /\ activeIdx = 1
    /\ CurrentCampaign = <<CAMPAIGNS[2]>> /\ position = PosOf(CAMPAIGNS[2])

\* the first fetch came back with no rows and the cycle runs on the built-in list
C26_WitnessNoRows ==
    /\ mounted /\ variant = "flagged" /\ db = <<>> /\ inflight = <<>> /\ ~error
    /\ all = <<>> /\ last = "swap" /\ activeIdx = 1

\* C27: once the initial positioning has run, whenever the interface is visible
\* and no cycle is in progress (no phase timeout pending), the committed camera
\* target is the displayed campaign's coordinates and zoom, and the region id
\* passed to the map is the displayed campaign's stateId.
C27_RestShowsDisplayedCampaign ==
    (mounted /\ initCount >= 1 /\ uiVisible /\ Pending(PhaseKinds) = {}) =>
        /\ CurrentCampaign # <<>>
        /\ position = PosOf(CurrentCampaign[1])
        /\ ActiveState = CurrentCampaign[1].stateId

\* the list the App displays once the table's rows are fetched
SteadyList == DisplayOf(variant, MapRows(db))

\* C28: while the table holds at least two active campaigns (or is empty, the
\* built-in list being shown), the index is advanced again and again and every
\* campaign of the list is displayed again and again, whatever re-renders of the
\* App the environment causes.
C28_EveryCampaignShownForever ==
    (Len(SteadyList) >= 2) =>
        /\ []<>(last = "swap")
        /\ \A k \in 0..(Len(CAMPAIGNS) - 1) :
              (k < Len(SteadyList)) => []<>(mounted /\ uiVisible /\ activeIdx = k)

\* C29: in a mounted App, once every fetch that was started has been answered
\* with rows, the campaigns state holds the rows answered to the fetch started
\* last, that is, the table as it was at the latest change notification.
C29_LatestFetchWins ==
    (mounted /\ dbChanges >= 1 /\ inflight = <<>> /\ ~error) => all = MapRows(db)

\* C30: once the value prop is left alone, the AnimatedCounter comes to rest:
\* from some frame on it displays exactly the value prop and no frame loop is
\* running, so no further animation frame is requested.
C30_CounterComesToRest == <>[](cntLoops = <<>> /\ cntDisplay = cntValue)

\* at rest on the value of a change that arrived while an earlier count-up ran
C30_Witness ==
    /\ cntChanges >= 1 /\ cntStale = 1
    /\ cntLoops = <<>> /\ cntDisplay = cntValue /\ cntValue # cntPrev

\* C33: in the older App (no hasInitialized flag) the initial positioning
\* command, the camera to CAMPAIGNS[0] 0.8 s after the effect ran, is issued
\* once per page load and never again while the cycle runs.
C33_LegacyInitOnce == (mounted /\ variant = "legacy") => initCount <= 1

\* C34: in a mounted App a fetch that fails leaves the campaigns state as it
\* was, sets error, and ends with loading false.
C34_FailedFetchKeepsList ==
    [][(mounted /\ \E i \in 1..Len(inflight) : FetchFail(i))
          => (mounted' /\ all' = all /\ error' /\ ~loading')]_vars

\* a refetch has failed after an earlier fetch had delivered rows: they are kept
C34_Witness ==
    /\ mounted /\ last = "fetchfail" /\ error /\ ~loading
    /\ all = MapRows(<<R3, R1, R2>>) /\ dbChanges >= 1 /\ inflight = <<>>

\* the rows of a table with the given id
RowsOf(rows, id) == {i \in 1..Len(rows) : rows[i].id = id}

\* C36: every toggleActive flips the campaign's participation in the display
\* cycle: the row written is inactive (is_active false) when the dashboard
\* treated the campaign as active (is_active other than false, null and
\* undefined included), and active when it treated it as inactive.
C36_ToggleFlipsParticipation ==
    [][\A k \in 1..Len(all) :
          ToggleActive(k) =>
              \A i \in RowsOf(db', all[k].id) :
                  IsActive(MapRow(db'[i])) # IsActive(all[k])]_vars

\* C31: the monitor's count is the number of consecutive frames below the
\* threshold (a frame at or above it resets the count to zero), and the page is
\* reloaded when that number reaches 100: a run of low frames is never seen at
\* 100 with the page still there, and a reload for low FPS comes at a run of
\* exactly 100.
C31_ReloadAtHundredLowFrames ==
    /\ mon.lowFPSCount = mon.lowRun
    /\ mon.lowRun < LOW_FPS_RELOAD
    /\ mon.reloadAt \in {0, LOW_FPS_RELOAD}

\* the part of C31 that holds: the count is the current run of low frames, and
\* no page is reloaded for low FPS before a run of more than 100
C31_CountIsConsecutive ==
    /\ mon.lowFPSCount = mon.lowRun
    /\ mon.lowRun <= LOW_FPS_RELOAD
    /\ mon.reloadAt \in {0, LOW_FPS_RELOAD + 1}

\* C37: after the cleanup of the monitor's effect no frame callback is pending
\* and the memory interval is cleared; no callback of the monitor has run while
\* its effect was cleaned up.
C37_NothingRunsAfterCleanup ==
    ~mon.on => (mon.raf = {} /\ ~mon.memTimer /\ mon.stray = 0)

\* a monitor that has counted low frames was disabled: nothing of it is pending
C37_Witness ==
    /\ ~mon.on /\ mon.lowFPSCount >= 2 /\ mon.fpsCheckRef # 0
    /\ mon.raf = {} /\ ~mon.memTimer /\ mon.lastMem = 120

\* the position of an entry in a log (0: not in it)
PosIn(log, what) ==
    IF \E i \in 1..Len(log) : log[i] = what
    THEN CHOOSE i \in 1..Len(log) : log[i] = what
    ELSE 0

\* C32: a reload is scheduled only while the hook is enabled with a positive
\* interval; when the timeout has fired, the page was reloaded, whatever
\* onBeforeReload and the localStorage write threw, and onBeforeReload, when
\* one was provided (and only then), was called before the reload.
C32_ReloadAfterCallback ==
    /\ ar.timer => (ar.enabled /\ ar.secs > 0)
    /\ (~ar.enabled \/ ar.secs <= 0) => ~ar.timer
    /\ ar.log # <<>> =>
          /\ ar.log[Len(ar.log)] = "reload"
          /\ ar.firedCb =>
                \/ PosIn(ar.log, "before") = 1
                \/ PosIn(ar.log, "beforeThrew") = 1
          /\ ~ar.firedCb =>
                (PosIn(ar.log, "before") = 0 /\ PosIn(ar.log, "beforeThrew") = 0)

\* the timeout fired, onBeforeReload threw and so did the localStorage write,
\* and the page was reloaded; since then the hook was disabled
C32_Witness ==
    /\ ar.log = <<"beforeThrew", "storeThrew", "reload">>
    /\ ar.firedCb /\ ~ar.enabled /\ ~ar.timer

\* C35: whatever reloadDelayMs (0 or more) the boundary is given, its countdown
\* state is never below 0 and never above floor(reloadDelayMs / 1000); once the
\* boundary has called reload no countdown interval is pending.
C35_CountdownInRange ==
    /\ countdown >= 0
    /\ countdown <= CountdownFrom(eb.delay)
    /\ eb.reloading => Pending({"countdown"}) = {}

\* the part of C35 that holds: the countdown is never above its start value and
\* never below -1, below 0 only for a delay under one second, and the interval
\* is cleared by the tick that calls reload
C35_CountdownBounds ==
    /\ countdown \in -1..CountdownFrom(eb.delay)
    /\ (countdown < 0 => eb.delay < 1000)
    /\ eb.reloading => Pending({"countdown"}) = {}

====
